---- MODULE Spec2Model ----
(***************************************************************************)
(* Model of the AI analysis pipeline of RFP-Optimize-AI (src/ai_engine.py):*)
(* AgentOrchestrator.run_analysis with its qualification gate, the two LLM *)
(* stages (TechnicalAgent.analyze_specs, PricingAgent.calculate_costs),    *)
(* the win-probability heuristic and the recommendation tiering.           *)
(*                                                                         *)
(* Numbers are integers in hundredths (71.0 is 7100).  A Python value that *)
(* may or may not be a number is a record [k, v]: k = "num" (v is the      *)
(* value in hundredths), "nan" (float NaN, which json.loads accepts),      *)
(* "none" (None) or "str" (any other non-number).  A Python dict is a      *)
(* function whose domain is its set of keys.  An operation that can raise  *)
(* yields Raise, or Ret(v) when it returns v.                              *)
(***************************************************************************)
EXTENDS Integers, Sequences, FiniteSets, TLC

VARIABLES
    pc,               \* position of the run_analysis invocation
    rfp_data,         \* the input dict of the invocation
    check_constraints,\* the flag of the invocation
    tech_result,      \* Ret(value of analyze_specs) once extraction ran
    pricing_result,   \* Ret(value of calculate_costs) once pricing ran
    result,           \* Ret(dict) returned to the caller, or Raise
    calls,            \* completion-client calls made by this invocation, each
                      \* with the prompt's inputs and the client's answer
    gate_raised,      \* the gate's rule evaluation raised in this invocation
    _model,           \* AgentOrchestrator._model is set
    _tech_agent,      \* AgentOrchestrator._tech_agent (set, sku_data)
    _pricing_agent,   \* AgentOrchestrator._pricing_agent (set, pricing_data)
    h_op, h_a, h_b, h_out, \* a single application of one pure function
    client,           \* a completion client that answers by the prompt alone
    env,              \* what building the model and opening the files meet
    probe,            \* an earlier invocation: its input, flag and result
    between,          \* another input was analysed since the probe
    handlers,         \* the request handlers in flight: position, RFP, result
    running,          \* the handler whose synchronous code runs, or 0
    db,               \* the MongoDB collections the API server works on
    tasks             \* the coroutines of the API server on the event loop

vars == <<pc, rfp_data, check_constraints, tech_result, pricing_result,
          result, calls, gate_raised, _model, _tech_agent, _pricing_agent,
          h_op, h_a, h_b, h_out, client, env, probe, between, handlers,
          running, db, tasks>>

run_vars == <<pc, rfp_data, check_constraints, tech_result, pricing_result,
              result, calls, gate_raised, _model, _tech_agent, _pricing_agent>>

h_vars == <<h_op, h_a, h_b, h_out>>

a_vars == <<db, tasks>>

d_vars == <<client, env, probe, between, handlers, running, db, tasks>>

-----------------------------------------------------------------------------
(* Python values *)

Num(v) == [k |-> "num", v |-> v]
NaN == [k |-> "nan", v |-> 0]
NoneVal == [k |-> "none", v |-> 0]
StrVal == [k |-> "str", v |-> 0]

\* float/int operands: arithmetic and ordering comparisons accept them
IsNumber(a) == a.k \in {"num", "nan"}

\* a < n, a > n, a <= n, a >= n for a number a and a literal n; every
\* comparison with NaN is False
Lt(a, n) == a.k = "num" /\ a.v < n
Gt(a, n) == a.k = "num" /\ a.v > n
Le(a, n) == a.k = "num" /\ a.v <= n
Ge(a, n) == a.k = "num" /\ a.v >= n

Raise == [exc |-> TRUE]
Ret(v) == [exc |-> FALSE, val |-> v]

EmptyDict == [x \in {} |-> 0]

\* dict.get(key, default)
Get(d, key, default) == IF key \in DOMAIN d THEN d[key] ELSE default

SpecKeys == {"product_type", "voltage_rating", "material",
             "durability_rating", "compliance_standards"}

\* str.startswith for the recommendation labels the engine produces
startswith(s, prefix) ==
    CASE prefix = "SELECT" -> s \in {"SELECT - High confidence recommendation"}
      [] prefix = "CONSIDER" -> s \in {"CONSIDER - Moderate confidence"}
      [] prefix = "REVIEW" -> s \in {"REVIEW - Low confidence"}
      [] prefix = "REJECT" -> s \in {"REJECT - Not recommended",
                                     "REJECT - Does not meet qualification criteria"}
      [] OTHER -> FALSE

-----------------------------------------------------------------------------
(* Qualification gate *)

\* the rules rejecting only negative budgets
constraint_rules_strict(data) ==
    LET budget == Get(data, "budget", Num(0)) IN
    IF ~IsNumber(budget) THEN Raise
    ELSE IF Lt(budget, 0)
         THEN Ret([qualified |-> FALSE,
                   reason |-> "Budget not specified or invalid"])
         ELSE Ret([qualified |-> TRUE,
                   reason |-> "Meets all qualification criteria"])

\* the body of the try block of check_qualification_constraints
constraint_rules(data) ==
    LET budget == Get(data, "budget", Num(0)) IN
    IF ~IsNumber(budget) THEN Raise     \* TypeError from budget <= 0
    ELSE IF Le(budget, 0)
         THEN Ret([qualified |-> FALSE,
                   reason |-> "Budget not specified or invalid"])
         ELSE Ret([qualified |-> TRUE,
                   reason |-> "Meets all qualification criteria"])

\* the gate without its except clause
check_qualification_constraints_propagating(data) == constraint_rules(data)

\* the gate failing closed
check_qualification_constraints_closed(data) ==
    LET r == constraint_rules(data) IN
    IF r.exc
    THEN Ret([qualified |-> FALSE,
              reason |-> "Constraint check failed, proceeding with analysis"])
    ELSE r

\* the gate rejecting only negative budgets
check_qualification_constraints_strict(data) ==
    LET budget == Get(data, "budget", Num(0)) IN
    IF ~IsNumber(budget)
    THEN Ret([qualified |-> TRUE,
              reason |-> "Constraint check failed, proceeding with analysis"])
    ELSE IF Lt(budget, 0)
         THEN Ret([qualified |-> FALSE,
                   reason |-> "Budget not specified or invalid"])
         ELSE Ret([qualified |-> TRUE,
                   reason |-> "Meets all qualification criteria"])

check_qualification_constraints(data) ==
    LET r == constraint_rules(data) IN
    IF r.exc
    THEN Ret([qualified |-> TRUE,
              reason |-> "Constraint check failed, proceeding with analysis"])
    ELSE r

-----------------------------------------------------------------------------
(* Win probability *)

\* round(x, 2) of a value given in thousandths, in hundredths.  Python rounds
\* the binary float, so a decimal tie goes to either neighbour.
round_2(x) ==
    LET q == x \div 10
        r == x % 10
    IN  IF r < 5 THEN {q} ELSE IF r > 5 THEN {q + 1} ELSE {q, q + 1}

Min(a, b) == IF a < b THEN a ELSE b
Max(a, b) == IF a > b THEN a ELSE b

\* the adjustment with the bonus granted from 18 on
margin_adjustment_inclusive(margin) ==
    IF Ge(margin, 1800) THEN 15000
    ELSE IF Lt(margin, 1000) THEN 0 - 10000
    ELSE 0

\* the margin adjustment, in thousandths
margin_adjustment(margin) ==
    IF Gt(margin, 1800) THEN 15000
    ELSE IF Lt(margin, 1000) THEN 0 - 10000
    ELSE 0

\* the possible outcomes of calculate_win_probability(match_score, margin):
\* Raise, or Ret(w) with w in hundredths
calculate_win_probability_unclamped(match_score, margin) ==
    IF ~IsNumber(match_score) THEN {Raise}
    ELSE IF ~IsNumber(margin) THEN {Raise}
    ELSE IF match_score.k = "nan" THEN {Ret(0)}
    ELSE { Ret(w) : w \in round_2(match_score.v * 7 + margin_adjustment(margin)) }

calculate_win_probability(match_score, margin) ==
    IF ~IsNumber(match_score) THEN {Raise}            \* match_score * 0.7
    ELSE IF ~IsNumber(margin) THEN {Raise}            \* margin > 18
    ELSE IF match_score.k = "nan" THEN {Ret(0)}      \* max(0, min(nan, 100.0))
    ELSE { Ret(Max(0, Min(w, 10000))) :
             w \in round_2(match_score.v * 7 + margin_adjustment(margin)) }

-----------------------------------------------------------------------------
(* Recommendation tiering and suggestions of run_analysis *)

\* the tiering with strict comparisons
recommendation_strict(win_probability, spec_match_score) ==
    IF win_probability > 7000 /\ Gt(spec_match_score, 7500)
    THEN <<"SELECT - High confidence recommendation",
           "Excellent match with strong win probability and high specification alignment.">>
    ELSE IF win_probability > 5000 /\ Gt(spec_match_score, 6000)
    THEN <<"CONSIDER - Moderate confidence",
           "Good potential with reasonable win probability and acceptable specification match.">>
    ELSE IF win_probability > 3000
    THEN <<"REVIEW - Low confidence",
           "Marginal win probability, requires careful evaluation of competition and pricing.">>
    ELSE <<"REJECT - Not recommended",
           "Low win probability and poor specification match suggest pursuing other opportunities.">>

\* <<recommendation, recommendation_reason>>
recommendation(win_probability, spec_match_score) ==
    IF win_probability >= 7000 /\ Ge(spec_match_score, 7500)
    THEN <<"SELECT - High confidence recommendation",
           "Excellent match with strong win probability and high specification alignment.">>
    ELSE IF win_probability >= 5000 /\ Ge(spec_match_score, 6000)
    THEN <<"CONSIDER - Moderate confidence",
           "Good potential with reasonable win probability and acceptable specification match.">>
    ELSE IF win_probability >= 3000
    THEN <<"REVIEW - Low confidence",
           "Marginal win probability, requires careful evaluation of competition and pricing.">>
    ELSE <<"REJECT - Not recommended",
           "Low win probability and poor specification match suggest pursuing other opportunities.">>

SuggestSpecs ==
    "Consider adjusting technical specifications to better match available product portfolio"
SuggestPricing ==
    "Review pricing strategy - current margin may be too aggressive for market conditions"
SuggestAligned ==
    "Proposal appears well-aligned with requirements - focus on competitive pricing and delivery timeline"

\* the suggestions without the default
suggestions_nodefault(win_probability, spec_match_score) ==
    (IF Lt(spec_match_score, 7000) THEN <<SuggestSpecs>> ELSE <<>>)
    \o (IF win_probability < 6000 THEN <<SuggestPricing>> ELSE <<>>)

\* the suggestions with the pricing suggestion first
suggestions_swapped(win_probability, spec_match_score) ==
    LET s == (IF win_probability < 6000 THEN <<SuggestPricing>> ELSE <<>>)
             \o (IF Lt(spec_match_score, 7000) THEN <<SuggestSpecs>> ELSE <<>>)
    IN  IF Len(s) = 0 THEN <<SuggestAligned>> ELSE s

suggestions(win_probability, spec_match_score) ==
    LET s == (IF Lt(spec_match_score, 7000) THEN <<SuggestSpecs>> ELSE <<>>)
             \o (IF win_probability < 6000 THEN <<SuggestPricing>> ELSE <<>>)
    IN  IF Len(s) = 0 THEN <<SuggestAligned>> ELSE s

-----------------------------------------------------------------------------
(* Reference data and the completion client *)

\* what open(filename) meets: the file, no file, or a file that cannot be read
FileStatus == {"ok", "missing", "unreadable"}

\* load_repository_file: the text read, the placeholder, or the error that
\* is not FileNotFoundError
load_repository_file(filename, status) ==
    IF status = "ok" THEN Ret([file |-> filename, placeholder |-> FALSE])
    ELSE IF status = "missing" THEN Ret([file |-> filename, placeholder |-> TRUE])
    ELSE Raise

\* a parsed JSON value: a dict, or anything else (list, number, string, null)
JsonDict(d) == [isdict |-> TRUE, d |-> d]
JsonOther == [isdict |-> FALSE, d |-> EmptyDict]

\* a response text is a sequence of tokens
FenceJsonTok == [t |-> "fence_json", val |-> JsonOther]
FenceTok == [t |-> "fence", val |-> JsonOther]
ProseTok == [t |-> "prose", val |-> JsonOther]
JsonTok(v) == [t |-> "json", val |-> v]

\* response.text with the two code-fence markers replaced by "" and stripped
strip_fences(text) == SelectSeq(text, LAMBDA tok : tok.t \notin {"fence_json", "fence"})

\* the sanitisation that leaves the fences in
strip_fences_kept(text) == text

\* a parser that takes the first JSON value it finds in the text
json_loads_lenient(text) ==
    LET found == SelectSeq(text, LAMBDA tok : tok.t = "json") IN
    IF Len(found) >= 1 THEN Ret(found[1].val) ELSE Raise

\* json.loads
json_loads(text) ==
    IF Len(text) = 1 /\ text[1].t = "json" THEN Ret(text[1].val) ELSE Raise

DegradedTech ==
    [spec_match_score |-> Num(0),
     standardized_specs |-> [key \in SpecKeys |-> "Error"],
     matched_skus |-> <<>>]

DegradedPricing == [margin |-> Num(0), total_bid_value |-> Num(0)]

\* the try block of a stage on the outcome of generate_content
parse_response(outcome) ==
    IF outcome.exc THEN Raise ELSE json_loads(strip_fences(outcome.val))

\* TechnicalAgent.analyze_specs, given the outcome of generate_content
analyze_specs(outcome) ==
    LET r == parse_response(outcome) IN
    IF r.exc THEN JsonDict(DegradedTech) ELSE r.val

\* the pricing stage falling back to an empty dict
calculate_costs_empty(outcome) ==
    LET r == parse_response(outcome) IN
    IF r.exc THEN JsonDict(EmptyDict) ELSE r.val

\* PricingAgent.calculate_costs, given the outcome of generate_content
calculate_costs(outcome) ==
    LET r == parse_response(outcome) IN
    IF r.exc THEN JsonDict(DegradedPricing) ELSE r.val

-----------------------------------------------------------------------------
(* What the completion client can answer *)

FullSpecs == [key \in SpecKeys |-> "Not Specified"]
PartialSpecs == [key \in {"product_type", "material"} |-> "Copper"]

TechShapes ==
    { ("standardized_specs" :> FullSpecs) @@ ("matched_skus" :> <<"P001", "P002">>)
        @@ ("match_reasoning" :> "fits"),
      ("standardized_specs" :> PartialSpecs) @@ ("matched_skus" :> <<>>),
      EmptyDict }

\* match scores in hundredths: the tier and suggestion thresholds, a decimal
\* tie (69.95 * 0.7), and scores outside [0,100]
ScoreValues == {0 - 1000, 0, 5900, 6000, 6995, 7000, 7500, 8000, 10000, 20000}

TechScores == { Num(v) : v \in ScoreValues } \cup {NaN, NoneVal, StrVal}

TechDicts ==
    { shape @@ ("spec_match_score" :> s) : shape \in TechShapes, s \in TechScores }
    \cup TechShapes

\* margins in hundredths of a percent
MarginValues == {0 - 500, 500, 1000, 1800, 1900, 2000, 5000}

PricingMargins == { Num(v) : v \in MarginValues } \cup {NaN, StrVal}

PricingDicts ==
    { ("total_bid_value" :> Num(120000)) @@ ("currency" :> "USD") @@ ("margin" :> m) :
        m \in PricingMargins }
    \cup { ("total_bid_value" :> Num(120000)) @@ ("currency" :> "USD") }

\* the texts a response can carry for a set of JSON dicts
Texts(dicts) ==
    { <<JsonTok(JsonDict(d))>> : d \in dicts }
    \cup { <<FenceJsonTok, JsonTok(JsonDict(d)), FenceTok>> : d \in dicts }
    \cup { <<JsonTok(JsonOther)>>, <<ProseTok>>, <<>>,
           <<ProseTok, JsonTok(JsonDict(EmptyDict))>> }

\* the outcomes of generate_content
Completions(dicts) == {Raise} \cup { Ret(t) : t \in Texts(dicts) }

\* budgets in hundredths
BudgetValues == {0 - 100, 0, 1, 5000000}

Budgets == { Num(v) : v \in BudgetValues } \cup {NoneVal, StrVal}

RfpInputs ==
    { [title |-> "Cable supply", description |-> "11kV XLPE cable", budget |-> b] :
        b \in Budgets }
    \cup { [title |-> "Cable supply", description |-> "11kV XLPE cable"] }

-----------------------------------------------------------------------------
(* AgentOrchestrator *)

Unset == [set |-> FALSE]
Some(v) == [set |-> TRUE, val |-> v]

\* the result of the qualification short-circuit
rejected_result(reason) ==
    [spec_match_score |-> Num(0),
     win_probability |-> 0,
     extracted_specs |-> EmptyDict,
     financial_analysis |-> EmptyDict,
     recommendation |-> "REJECT - Does not meet qualification criteria",
     recommendation_reason |-> reason,
     suggestions |-> <<"Review qualification criteria with admin",
                       "Consider adjusting RFP requirements">>,
     agent_status |-> "completed"]

\* the fallback reporting the status "failed"
FallbackResult_failed ==
    [spec_match_score |-> Num(5000),
     win_probability |-> 4500,
     extracted_specs |-> [key \in SpecKeys |-> "Analysis Failed"],
     financial_analysis |->
        [breakdown |-> [material_cost |-> Num(0), service_fees |-> Num(0),
                        applied_fees_list |-> <<>>],
         total_cost_internal |-> Num(0),
         total_bid_value |-> Num(0),
         margin |-> Num(2000),
         currency |-> "USD"],
     recommendation |-> "REVIEW - Low confidence",
     recommendation_reason |->
        "AI analysis failed, using fallback values. Manual review recommended.",
     suggestions |-> <<"Re-run AI analysis when service is available",
                       "Manually review RFP requirements against company capabilities">>,
     agent_status |-> "failed"]

\* the result built in the except clause of run_analysis
FallbackResult ==
    [spec_match_score |-> Num(5000),
     win_probability |-> 4500,
     extracted_specs |-> [key \in SpecKeys |-> "Analysis Failed"],
     financial_analysis |->
        [breakdown |-> [material_cost |-> Num(0), service_fees |-> Num(0),
                        applied_fees_list |-> <<>>],
         total_cost_internal |-> Num(0),
         total_bid_value |-> Num(0),
         margin |-> Num(2000),
         currency |-> "USD"],
     recommendation |-> "REVIEW - Low confidence",
     recommendation_reason |->
        "AI analysis failed, using fallback values. Manual review recommended.",
     suggestions |-> <<"Re-run AI analysis when service is available",
                       "Manually review RFP requirements against company capabilities">>,
     agent_status |-> "completed"]

\* the result assembled on the normal path from the two stage dicts and the
\* win probability
normal_result(tech, pricing, win_probability) ==
    LET spec_match_score == Get(tech, "spec_match_score", Num(0))
        rec == recommendation(win_probability, spec_match_score)
    IN  [spec_match_score |-> spec_match_score,
         extracted_specs |-> Get(tech, "standardized_specs", EmptyDict),
         matched_skus |-> Get(tech, "matched_skus", <<>>),
         financial_analysis |-> pricing,
         win_probability |-> win_probability,
         recommendation |-> rec[1],
         recommendation_reason |-> rec[2],
         suggestions |-> suggestions(win_probability, spec_match_score),
         agent_status |-> "completed"]

\* the try statement of run_analysis without its except clause
recover_propagating(outcome) == outcome

\* the try/except of run_analysis applied to the outcome of its body
recover(outcome) == IF outcome.exc THEN Ret(FallbackResult) ELSE outcome

\* an agent property whose agent serves the invocation that built it only
agent_property_single_use(agent, model_set, filename, model_ok, status) ==
    IF agent.set THEN [exc |-> TRUE, model |-> model_set, agent |-> agent]
    ELSE IF ~model_set /\ ~model_ok
    THEN [exc |-> TRUE, model |-> FALSE, agent |-> agent]
    ELSE LET data == load_repository_file(filename, status) IN
         IF data.exc
         THEN [exc |-> TRUE, model |-> TRUE, agent |-> agent]
         ELSE [exc |-> FALSE, model |-> TRUE,
               agent |-> [set |-> TRUE, data |-> data.val]]

\* the model property followed by the constructor of an agent that is not
\* built yet; model_ok: GenerativeModel(MODEL_NAME) succeeds; status: what
\* opening the agent's repository file meets
agent_property(agent, model_set, filename, model_ok, status) ==
    IF agent.set THEN [exc |-> FALSE, model |-> model_set, agent |-> agent]
    ELSE IF ~model_set /\ ~model_ok
    THEN [exc |-> TRUE, model |-> FALSE, agent |-> agent]
    ELSE LET data == load_repository_file(filename, status) IN
         IF data.exc
         THEN [exc |-> TRUE, model |-> TRUE, agent |-> agent]
         ELSE [exc |-> FALSE, model |-> TRUE,
               agent |-> [set |-> TRUE, data |-> data.val]]

\* the pricing arguments taken from the specifications only
pricing_arguments_no_skus(tech) ==
    [skus |-> <<>>,
     specs |-> Get(tech, "standardized_specs", EmptyDict)]

\* the two arguments run_analysis passes to calculate_costs
pricing_arguments(tech) ==
    [skus |-> Get(tech, "matched_skus", <<>>),
     specs |-> Get(tech, "standardized_specs", EmptyDict)]

\* the margin read with the default 0
win_probability_arguments_zero(tech, pricing) ==
    [match_score |-> Get(tech, "spec_match_score", Num(0)),
     margin |-> Get(pricing, "margin", Num(0))]

\* the two arguments run_analysis passes to calculate_win_probability
win_probability_arguments(tech, pricing) ==
    [match_score |-> Get(tech, "spec_match_score", Num(0)),
     margin |-> Get(pricing, "margin", Num(2000))]

\* the text the extraction prompt is built from
rfp_text(data) == <<Get(data, "title", ""), Get(data, "description", "")>>

\* the orchestrator as constructed, no invocation made
InitOrchestrator ==
    /\ pc = "idle"
    /\ rfp_data = EmptyDict
    /\ check_constraints = TRUE
    /\ tech_result = Unset
    /\ pricing_result = Unset
    /\ result = Unset
    /\ calls = <<>>
    /\ gate_raised = FALSE
    /\ _model = FALSE
    /\ _tech_agent = Unset
    /\ _pricing_agent = Unset

\* no pure function is being applied
InitNoPure ==
    /\ h_op = "none"
    /\ h_a = 0
    /\ h_b = 0
    /\ h_out = Unset

\* the completion client and the environment are not fixed in advance
InitNoClient ==
    /\ client = EmptyDict
    /\ env = EmptyDict
    /\ probe = Unset
    /\ between = FALSE
    /\ handlers = <<>>
    /\ running = 0
    /\ db = EmptyDict
    /\ tasks = <<>>

Init == InitOrchestrator /\ InitNoPure /\ InitNoClient

\* a caller invokes run_analysis(rfp_data, check_constraints) with one of
\* the inputs
CallWith(inputs) ==
    /\ pc = "idle"
    /\ \E data \in inputs, flag \in BOOLEAN :
         /\ rfp_data' = data
         /\ check_constraints' = flag
    /\ pc' = "gate"
    /\ tech_result' = Unset
    /\ pricing_result' = Unset
    /\ result' = Unset
    /\ calls' = <<>>
    /\ gate_raised' = FALSE
    /\ UNCHANGED <<_model, _tech_agent, _pricing_agent, h_vars>>

Call == CallWith(RfpInputs) /\ UNCHANGED d_vars

\* run_analysis evaluating the gate whatever check_constraints is
Gate_unconditional ==
    /\ pc = "gate"
    /\ LET constraint_check == check_qualification_constraints(rfp_data) IN
       /\ gate_raised' = constraint_rules(rfp_data).exc
       /\ IF constraint_check.exc
          THEN result' = Raise /\ pc' = "done"
          ELSE IF ~constraint_check.val.qualified
          THEN /\ result' = Ret(rejected_result(constraint_check.val.reason))
               /\ pc' = "done"
          ELSE result' = result /\ pc' = "extract"
    /\ UNCHANGED <<rfp_data, check_constraints, tech_result, pricing_result,
                   calls, _model, _tech_agent, _pricing_agent, h_vars, d_vars>>

\* run_analysis up to the try statement
Gate ==
    /\ pc = "gate"
    /\ IF check_constraints
       THEN LET constraint_check == check_qualification_constraints(rfp_data) IN
            /\ gate_raised' = constraint_rules(rfp_data).exc
            /\ IF constraint_check.exc
               THEN result' = Raise /\ pc' = "done"
               ELSE IF ~constraint_check.val.qualified
               THEN /\ result' = Ret(rejected_result(constraint_check.val.reason))
                    /\ pc' = "done"
               ELSE result' = result /\ pc' = "extract"
       ELSE /\ pc' = "extract"
            /\ UNCHANGED <<result, gate_raised>>
    /\ UNCHANGED <<rfp_data, check_constraints, tech_result, pricing_result,
                   calls, _model, _tech_agent, _pricing_agent, h_vars, d_vars>>

\* self.tech_agent.analyze_specs(rfp_text), given whether building the model
\* succeeds, what opening the repository file meets and what the completion
\* client does
ExtractWith(model_ok, status, outcome) ==
    /\ pc = "extract"
    /\   LET a == agent_property(_tech_agent, _model, "sku_repository.txt",
                                 model_ok, status)
         IN  /\ _model' = a.model
             /\ _tech_agent' = a.agent
             /\ IF a.exc
                THEN /\ result' = recover(Raise)
                     /\ pc' = "done"
                     /\ UNCHANGED <<tech_result, calls>>
                ELSE /\ calls' = Append(calls,
                            [stage |-> "extraction", text |-> rfp_text(rfp_data),
                             data |-> a.agent.data, skus |-> <<>>,
                             specs |-> EmptyDict, answer |-> outcome])
                     /\ tech_result' = Some(analyze_specs(outcome))
                     /\ pc' = "price"
                     /\ UNCHANGED result
    /\ UNCHANGED <<rfp_data, check_constraints, pricing_result, gate_raised,
                   _pricing_agent, h_vars>>

Extract ==
    \E model_ok \in BOOLEAN, status \in FileStatus,
       outcome \in Completions(TechDicts) :
      ExtractWith(model_ok, status, outcome) /\ UNCHANGED d_vars

\* self.pricing_agent.calculate_costs(tech_result.get(...), tech_result.get(...))
PriceWith(model_ok, status, outcome) ==
    /\ pc = "price"
    /\   LET a == agent_property(_pricing_agent, _model, "pricing_repository.txt",
                                 model_ok, status)
             tech == tech_result.val
         IN  /\ _model' = a.model
             /\ _pricing_agent' = a.agent
             /\ IF a.exc \/ ~tech.isdict     \* AttributeError from tech_result.get
                THEN /\ result' = recover(Raise)
                     /\ pc' = "done"
                     /\ UNCHANGED <<pricing_result, calls>>
                ELSE /\ calls' = Append(calls,
                            [stage |-> "pricing", text |-> <<>>,
                             data |-> a.agent.data,
                             skus |-> pricing_arguments(tech.d).skus,
                             specs |-> pricing_arguments(tech.d).specs,
                             answer |-> outcome])
                     /\ pricing_result' = Some(calculate_costs(outcome))
                     /\ pc' = "score"
                     /\ UNCHANGED result
    /\ UNCHANGED <<rfp_data, check_constraints, tech_result, gate_raised,
                   _tech_agent, h_vars>>

Price ==
    \E model_ok \in BOOLEAN, status \in FileStatus,
       outcome \in Completions(PricingDicts) :
      PriceWith(model_ok, status, outcome) /\ UNCHANGED d_vars

\* the outcomes of a rounding whose ties go in the given directions
tie_outcomes(outcomes, directions) ==
    IF Cardinality(outcomes) = 1 THEN outcomes
    ELSE { o \in outcomes :
             \/ "down" \in directions /\ \A other \in outcomes : o.val <= other.val
             \/ "up" \in directions /\ \A other \in outcomes : o.val >= other.val }

\* the rest of the try block: win probability, recommendation, suggestions
\* and the returned dict
ScoreWith(directions) ==
    /\ pc = "score"
    /\ LET tech == tech_result.val.d
           pricing == pricing_result.val
       IN  IF ~pricing.isdict          \* AttributeError from pricing_result.get
           THEN result' = recover(Raise)
           ELSE \E w \in tie_outcomes(calculate_win_probability(
                                         win_probability_arguments(tech, pricing.d).match_score,
                                         win_probability_arguments(tech, pricing.d).margin),
                                     directions) :
                  result' = IF w.exc THEN recover(Raise)
                            ELSE recover(Ret(normal_result(tech, pricing.d, w.val)))
    /\ pc' = "done"
    /\ UNCHANGED <<rfp_data, check_constraints, tech_result, pricing_result,
                   calls, gate_raised, _model, _tech_agent, _pricing_agent, h_vars>>

Score == ScoreWith({"down", "up"}) /\ UNCHANGED d_vars

\* the caller takes the result; the orchestrator is ready for the next call
ReturnToCaller ==
    /\ pc = "done"
    /\ pc' = "idle"
    /\ UNCHANGED <<rfp_data, check_constraints, tech_result, pricing_result,
                   result, calls, gate_raised, _model, _tech_agent,
                   _pricing_agent, h_vars>>

Return == ReturnToCaller /\ UNCHANGED d_vars

Next == Call \/ Gate \/ Extract \/ Price \/ Score \/ Return

Spec == Init /\ [][Next]_vars

-----------------------------------------------------------------------------
(* The orchestrator against a completion client that answers the same     *)
(* prompt the same way every time. The client is a function of the prompt; *)
(* its value on a prompt is chosen when the prompt is first sent and kept  *)
(* in the variable client. round() is a function of its argument: the way  *)
(* it takes a decimal tie is chosen once, in env. The reference data is    *)
(* immutable for the life of the process: what building the model and      *)
(* opening each repository file meet is chosen once, in env, as well.      *)

DetInputs ==
    { [title |-> "Cable supply", description |-> "11kV XLPE cable",
       budget |-> Num(5000000)],
      [title |-> "Cable supply", description |-> "11kV XLPE cable",
       budget |-> Num(0)],
      [title |-> "Switchgear", description |-> "415V panel",
       budget |-> Num(5000000)] }

\* what the client can answer to the extraction prompt
DetTechCompletions ==
    { Raise,
      Ret(<<JsonTok(JsonDict(("standardized_specs" :> FullSpecs)
                             @@ ("matched_skus" :> <<"P001", "P002">>)
                             @@ ("spec_match_score" :> Num(8000))))>>),
      Ret(<<FenceJsonTok,
            JsonTok(JsonDict(("standardized_specs" :> PartialSpecs)
                             @@ ("matched_skus" :> <<>>)
                             @@ ("spec_match_score" :> Num(6995)))),
            FenceTok>>) }

\* what the client can answer to the pricing prompt
DetPricingCompletions ==
    { Raise,
      Ret(<<JsonTok(JsonDict(("total_bid_value" :> Num(120000))
                             @@ ("currency" :> "USD")
                             @@ ("margin" :> Num(2000))))>>) }

\* the prompt of a stage: the reference data of the agent and what
\* run_analysis passes to the stage
prompt(stage, data, text, args) ==
    [stage |-> stage, data |-> data, text |-> text,
     skus |-> args.skus, specs |-> args.specs]

NoArguments == [skus |-> <<>>, specs |-> EmptyDict]

\* the client answers the prompt: as before when it has seen the prompt
answers(key, outcome) == key \in DOMAIN client => outcome = client[key]

\* the tie direction of round(), whether GenerativeModel(MODEL_NAME) can be
\* built, and what opening each of the two repository files meets
Environments ==
    [tie : {"down", "up"}, model_ok : BOOLEAN,
     sku : FileStatus, pricing : FileStatus]

InitDet ==
    /\ InitOrchestrator
    /\ InitNoPure
    /\ client = EmptyDict
    /\ env \in Environments
    /\ probe = Unset
    /\ between = FALSE
    /\ handlers = <<>>
    /\ running = 0
    /\ db = EmptyDict
    /\ tasks = <<>>

DetCall == CallWith(DetInputs) /\ UNCHANGED d_vars

DetGate == pc = "gate" /\ Gate

DetExtract ==
    \E outcome \in DetTechCompletions :
      LET a == agent_property(_tech_agent, _model, "sku_repository.txt",
                              env.model_ok, env.sku)
          key == prompt("extraction", a.agent.data, rfp_text(rfp_data), NoArguments)
      IN  /\ pc = "extract"
          /\ IF a.exc THEN TRUE ELSE answers(key, outcome)
          /\ ExtractWith(env.model_ok, env.sku, outcome)
          /\ client' = IF a.exc THEN client ELSE (key :> outcome) @@ client
          /\ UNCHANGED <<env, probe, between, handlers, running, a_vars>>

DetPrice ==
    \E outcome \in DetPricingCompletions :
      LET a == agent_property(_pricing_agent, _model, "pricing_repository.txt",
                              env.model_ok, env.pricing)
          tech == tech_result.val
          sent == ~a.exc /\ tech.isdict
          key == prompt("pricing", a.agent.data, <<>>, pricing_arguments(tech.d))
      IN  /\ pc = "price"
          /\ IF sent THEN answers(key, outcome) ELSE TRUE
          /\ PriceWith(env.model_ok, env.pricing, outcome)
          /\ client' = IF sent THEN (key :> outcome) @@ client ELSE client
          /\ UNCHANGED <<env, probe, between, handlers, running, a_vars>>

DetScore == ScoreWith({env.tie}) /\ UNCHANGED d_vars

\* the caller takes the result; an observer may keep the first result it
\* chooses to, and notes a later invocation with another input
DetReturn ==
    /\ ReturnToCaller
    /\ IF probe = Unset
       THEN /\ probe' \in { Unset,
                            Some([data |-> rfp_data, flag |-> check_constraints,
                                  result |-> result]) }
            /\ between' = between
       ELSE /\ probe' = probe
            /\ between' = (between \/ probe.val.data # rfp_data
                                   \/ probe.val.flag # check_constraints)
    /\ UNCHANGED <<client, env, handlers, running, a_vars>>

NextDet == DetCall \/ DetGate \/ DetExtract \/ DetPrice \/ DetScore \/ DetReturn

SpecDet == InitDet /\ [][NextDet]_vars

-----------------------------------------------------------------------------
(* Request handlers in flight on the one event loop. Every caller of       *)
(* run_analysis is a coroutine and run_analysis has no await: a handler    *)
(* gives the loop up only at its own awaits, before and after the call, so *)
(* an invocation runs from its first line to its return before another     *)
(* handler is resumed. The repository files, the construction of the model *)
(* and the completion client behave the same for the whole run.            *)

Callers == {1, 2}

\* the RFP each handler loads
ConcInputs ==
    { (1 :> [title |-> "Cable supply", description |-> "11kV XLPE cable",
             budget |-> b])
      @@ (2 :> [title |-> "Switchgear", description |-> "415V panel",
                budget |-> Num(5000000)]) :
        b \in {Num(0), Num(5000000)} }

\* the reference data an agent holds under a status of its repository file
reference_data(filename, status) ==
    [file |-> filename, placeholder |-> status # "ok"]

\* the clients that are functions of the prompt, on the prompts the handlers
\* can cause under the environment
ConcClients(e, inputs) ==
    LET extraction == { prompt("extraction",
                               reference_data("sku_repository.txt", e.sku),
                               rfp_text(inputs[c]), NoArguments) : c \in Callers }
        pricing == { prompt("pricing",
                            reference_data("pricing_repository.txt", e.pricing),
                            <<>>, pricing_arguments(analyze_specs(o).d)) :
                       o \in DetTechCompletions }
    IN  { x @@ y : x \in [extraction -> DetTechCompletions],
                   y \in [pricing -> DetPricingCompletions] }

InitConc ==
    /\ InitOrchestrator
    /\ InitNoPure
    /\ env \in Environments
    /\ \E inputs \in ConcInputs :
         /\ handlers = [c \in Callers |->
                          [at |-> "waiting", data |-> inputs[c], out |-> Unset]]
         /\ client \in ConcClients(env, inputs)
    /\ running = 0
    /\ probe = Unset
    /\ between = FALSE
    /\ db = EmptyDict
    /\ tasks = <<>>

\* a handler that passes the RFP of any handler in flight to run_analysis
ConcCall_any(c) ==
    /\ running = 0
    /\ handlers[c].at = "waiting"
    /\ CallWith({ handlers[o].data : o \in Callers })
    /\ check_constraints' = TRUE
    /\ running' = c
    /\ handlers' = [handlers EXCEPT ![c].at = "analysing"]
    /\ UNCHANGED <<client, env, probe, between, a_vars>>

\* a handler is resumed from its await and calls run_analysis with its RFP
ConcCall(c) ==
    /\ running = 0
    /\ handlers[c].at = "waiting"
    /\ CallWith({handlers[c].data})
    /\ check_constraints' = TRUE
    /\ running' = c
    /\ handlers' = [handlers EXCEPT ![c].at = "analysing"]
    /\ UNCHANGED <<client, env, probe, between, a_vars>>

ConcGate == running # 0 /\ Gate

ConcExtract ==
    LET a == agent_property(_tech_agent, _model, "sku_repository.txt",
                            env.model_ok, env.sku)
        key == prompt("extraction", a.agent.data, rfp_text(rfp_data), NoArguments)
    IN  /\ running # 0
        /\ pc = "extract"
        /\ ExtractWith(env.model_ok, env.sku, IF a.exc THEN Raise ELSE client[key])
        /\ UNCHANGED d_vars

ConcPrice ==
    LET a == agent_property(_pricing_agent, _model, "pricing_repository.txt",
                            env.model_ok, env.pricing)
        tech == tech_result.val
        key == prompt("pricing", a.agent.data, <<>>, pricing_arguments(tech.d))
    IN  /\ running # 0
        /\ pc = "price"
        /\ PriceWith(env.model_ok, env.pricing,
                     IF a.exc \/ ~tech.isdict THEN Raise ELSE client[key])
        /\ UNCHANGED d_vars

ConcScore == running # 0 /\ ScoreWith({env.tie}) /\ UNCHANGED d_vars

\* run_analysis returns to its handler, which awaits the database update
ConcReturn ==
    /\ running # 0
    /\ ReturnToCaller
    /\ handlers' = [handlers EXCEPT ![running].at = "saving",
                                    ![running].out = Some(result)]
    /\ running' = 0
    /\ UNCHANGED <<client, env, probe, between, a_vars>>

\* the database update of a handler completes
Save(c) ==
    /\ handlers[c].at = "saving"
    /\ handlers' = [handlers EXCEPT ![c].at = "done"]
    /\ UNCHANGED <<run_vars, h_vars, client, env, probe, between, running, a_vars>>

NextConc ==
    \/ \E c \in Callers : ConcCall(c)
    \/ ConcGate
    \/ ConcExtract
    \/ ConcPrice
    \/ ConcScore
    \/ ConcReturn
    \/ \E c \in Callers : Save(c)

SpecConc == InitConc /\ [][NextConc]_vars

\* run_analysis(data) on an orchestrator of its own, under the environment e
\* and against the client cl
run_alone(data, cl, e) ==
    LET gate == check_qualification_constraints(data)
        a == agent_property(Unset, FALSE, "sku_repository.txt", e.model_ok, e.sku)
        tech == analyze_specs(
                    cl[prompt("extraction", a.agent.data, rfp_text(data), NoArguments)])
        b == agent_property(Unset, a.model, "pricing_repository.txt",
                            e.model_ok, e.pricing)
        pricing == calculate_costs(
                       cl[prompt("pricing", b.agent.data, <<>>,
                                 pricing_arguments(tech.d))])
    IN  IF gate.exc THEN {Raise}
        ELSE IF ~gate.val.qualified
        THEN {Ret(rejected_result(gate.val.reason))}
        ELSE IF a.exc THEN {recover(Raise)}
        ELSE IF ~tech.isdict \/ b.exc THEN {recover(Raise)}
        ELSE IF ~pricing.isdict THEN {recover(Raise)}
        ELSE { IF w.exc THEN recover(Raise)
               ELSE recover(Ret(normal_result(tech.d, pricing.d, w.val))) :
                 w \in tie_outcomes(calculate_win_probability(
                                        win_probability_arguments(tech.d, pricing.d).match_score,
                                        win_probability_arguments(tech.d, pricing.d).margin),
                                    {e.tie}) }

-----------------------------------------------------------------------------
(* The pure functions of the engine, each applied once to an argument drawn *)
(* from a grid around its thresholds                                        *)

\* extent of the budget grid, in hundredths
PureBudgetSpan == 150

\* number of 0.25 steps of the match-score grid above 0
PureScoreSteps == 800

\* budgets in hundredths
PureBudgets ==
    { Num(v) : v \in (0 - PureBudgetSpan) .. PureBudgetSpan } \cup { Num(5000000), NoneVal, StrVal, NaN }

PureRfpInputs ==
    { [title |-> "Cable supply", description |-> "11kV XLPE cable", budget |-> b] :
        b \in PureBudgets }
    \cup { [title |-> "Cable supply", description |-> "11kV XLPE cable"] }

\* match scores from -10 to 200 in steps of 0.25, which include decimal ties
PureScores ==
    { Num(25 * i) : i \in (0 - 40) .. PureScoreSteps } \cup { Num(6999), Num(7499), NaN, NoneVal, StrVal }

PureMargins ==
    { Num(v) : v \in {0 - 500, 0, 500, 999, 1000, 1001, 1799, 1800, 1801, 1900,
                      2000, 5000} }
    \cup { NaN, NoneVal, StrVal }

\* win probabilities: every threshold and its neighbours
PureWins ==
    { t + e : t \in {0, 3000, 5000, 6000, 7000, 10000}, e \in {0 - 1, 0, 1} }
    \cap (0 .. 10000)

PureMatches ==
    { Num(v) : v \in { t + e : t \in {0, 6000, 7000, 7500, 10000}, e \in {0 - 1, 0, 1} }
                     \cap (0 .. 10000) }

InitPure ==
    /\ InitOrchestrator
    /\ InitNoClient
    /\ h_out = Unset
    /\ \/ h_op = "check_qualification_constraints" /\ h_a \in PureRfpInputs /\ h_b = 0
       \/ h_op = "calculate_win_probability" /\ h_a \in PureScores /\ h_b \in PureMargins
       \/ h_op = "recommendation" /\ h_a \in PureWins /\ h_b \in PureMatches
       \/ h_op = "suggestions" /\ h_a \in PureWins /\ h_b \in PureMatches

ApplyGate ==
    /\ h_op = "check_qualification_constraints"
    /\ h_out = Unset
    /\ h_out' = Some(check_qualification_constraints(h_a))
    /\ UNCHANGED <<run_vars, h_op, h_a, h_b, d_vars>>

ApplyWinProbability ==
    /\ h_op = "calculate_win_probability"
    /\ h_out = Unset
    /\ \E w \in calculate_win_probability(h_a, h_b) : h_out' = Some(w)
    /\ UNCHANGED <<run_vars, h_op, h_a, h_b, d_vars>>

ApplyRecommendation ==
    /\ h_op = "recommendation"
    /\ h_out = Unset
    /\ h_out' = Some(recommendation(h_a, h_b))
    /\ UNCHANGED <<run_vars, h_op, h_a, h_b, d_vars>>

ApplySuggestions ==
    /\ h_op = "suggestions"
    /\ h_out = Unset
    /\ h_out' = Some(suggestions(h_a, h_b))
    /\ UNCHANGED <<run_vars, h_op, h_a, h_b, d_vars>>

NextPure == ApplyGate \/ ApplyWinProbability \/ ApplyRecommendation \/ ApplySuggestions

SpecPure == InitPure /\ [][NextPure]_vars

-----------------------------------------------------------------------------
(* Properties *)

Returned == pc = "done" /\ result # Unset /\ result # Raise

\* the invocation went through the gate with check_constraints and a budget
\* that is a number <= 0
NonPositiveBudget ==
    /\ check_constraints
    /\ "budget" \in DOMAIN rfp_data
    /\ Le(rfp_data["budget"], 0)

\* the returned dict came from the normal path (only it carries matched_skus)
NormalPath == Returned /\ "matched_skus" \in DOMAIN result.val

\* C1: run_analysis never raises to its caller: whatever the input dict and
\* whatever the completion client does on either prompt, a finished
\* invocation has returned a result value.
C1_NeverRaises == pc = "done" => (result # Unset /\ result # Raise)

\* a finished invocation whose extraction response was JSON but not an object
C1_Witness ==
    /\ pc = "done"
    /\ tech_result # Unset
    /\ ~tech_result.val.isdict
    /\ result = Ret(FallbackResult)

\* C2: with check_constraints and a budget <= 0 the completion client is
\* never invoked, and the result is the rejection: recommendation starting
\* with REJECT, score 0, win probability 0, empty specs and financial
\* analysis, the gate's reason, exactly the two fixed suggestions.
C2_RejectWithoutLLM ==
    (pc # "idle" /\ NonPositiveBudget) =>
        /\ calls = <<>>
        /\ pc \in {"gate", "done"}
        /\ pc = "done" =>
            /\ result # Unset /\ result # Raise
            /\ startswith(result.val.recommendation, "REJECT")
            /\ result.val.spec_match_score = Num(0)
            /\ result.val.win_probability = 0
            /\ result.val.extracted_specs = EmptyDict
            /\ result.val.financial_analysis = EmptyDict
            /\ result.val.recommendation_reason = "Budget not specified or invalid"
            /\ result.val.recommendation_reason = constraint_rules(rfp_data).val.reason
            /\ result.val.suggestions = <<"Review qualification criteria with admin",
                                          "Consider adjusting RFP requirements">>

C2_Witness ==
    /\ pc = "done"
    /\ check_constraints
    /\ "budget" \in DOMAIN rfp_data
    /\ rfp_data["budget"] = Num(0)
    /\ result # Unset /\ result # Raise
    /\ result.val.recommendation = "REJECT - Does not meet qualification criteria"

\* C3: check_qualification_constraints returns qualified=false with reason
\* "Budget not specified or invalid" for every numeric budget <= 0 and
\* qualified=true with reason "Meets all qualification criteria" for every
\* numeric budget > 0, and applying it changes nothing of the orchestrator.
C3_GateByBudget ==
    (h_op = "check_qualification_constraints" /\ h_out # Unset
       /\ "budget" \in DOMAIN h_a /\ h_a["budget"].k = "num") =>
        /\ h_a["budget"].v <= 0 =>
             h_out.val = Ret([qualified |-> FALSE,
                              reason |-> "Budget not specified or invalid"])
        /\ h_a["budget"].v > 0 =>
             h_out.val = Ret([qualified |-> TRUE,
                              reason |-> "Meets all qualification criteria"])
        /\ _model = FALSE /\ _tech_agent = Unset /\ _pricing_agent = Unset
        /\ calls = <<>>

C3_Witness ==
    /\ h_op = "check_qualification_constraints"
    /\ h_out # Unset
    /\ "budget" \in DOMAIN h_a
    /\ h_a["budget"] = Num(0)
    /\ h_out.val = Ret([qualified |-> FALSE, reason |-> "Budget not specified or invalid"])

\* the budget of the invocation is missing: no budget key, or the value None
MissingBudget ==
    \/ "budget" \notin DOMAIN rfp_data
    \/ rfp_data["budget"] = NoneVal

\* C4: an RFP whose budget is missing (key absent, or the unset
\* approximate_budget None passed as the value) is rejected by the gate with
\* reason "Budget not specified or invalid", so run_analysis with
\* check_constraints makes no LLM call for it.
C4_MissingBudgetRejected ==
    (pc = "done" /\ check_constraints /\ MissingBudget) =>
        /\ calls = <<>>
        /\ result = Ret(rejected_result("Budget not specified or invalid"))

\* C5: the gate fails open: when evaluating the check raises,
\* check_qualification_constraints returns qualified=true with the reason
\* that the check failed, nothing is raised and nothing is rejected by the
\* gate, and run_analysis goes on to the extraction stage.
C5_GateFailsOpen ==
    gate_raised =>
        /\ check_qualification_constraints(rfp_data) =
             Ret([qualified |-> TRUE,
                  reason |-> "Constraint check failed, proceeding with analysis"])
        /\ pc \in {"extract", "price", "score", "done", "idle"}
        /\ result # Raise
        /\ result # Unset =>
             result.val.recommendation # "REJECT - Does not meet qualification criteria"
        /\ pc \in {"price", "score"} => Len(calls) >= 1
        /\ pc = "done" => (Len(calls) >= 1 \/ result = Ret(FallbackResult))

C5_Witness ==
    /\ gate_raised
    /\ pc = "price"
    /\ rfp_data["budget"] = StrVal
    /\ Len(calls) = 1

\* matchScore * 0.7 plus the margin adjustment, in thousandths, stated from
\* the two numbers
ExactBase(score, margin) ==
    score * 7 + (IF margin > 1800 THEN 15000 ELSE IF margin < 1000 THEN 0 - 10000 ELSE 0)

\* w (hundredths) is x (thousandths) rounded to 2 decimals
IsRounded(w, x) == 10 * w - x \in (0 - 5) .. 5

\* C6: for every match score and margin calculate_win_probability returns
\* matchScore*0.7, plus 15 if margin > 18, else minus 10 if margin < 10, else
\* unchanged, clamped to [0,100] and rounded to 2 decimals; (80,20) gives
\* 71.0, (80,5) gives 46.0 and (100,19) gives 85.0.
C6_WinProbabilityFormula ==
    (h_op = "calculate_win_probability" /\ h_out # Unset
       /\ h_a.k = "num" /\ h_b.k = "num") =>
        LET x == ExactBase(h_a.v, h_b.v) IN
        /\ ~h_out.val.exc
        /\ h_out.val.val \in 0 .. 10000
        /\ x < 0 => h_out.val.val = 0
        /\ x > 100000 => h_out.val.val = 10000
        /\ x \in 0 .. 100000 => IsRounded(h_out.val.val, x)
        /\ (h_a.v = 8000 /\ h_b.v = 2000) => h_out.val.val = 7100
        /\ (h_a.v = 8000 /\ h_b.v = 500) => h_out.val.val = 4600
        /\ (h_a.v = 10000 /\ h_b.v = 1900) => h_out.val.val = 8500
        /\ (h_a.v = 8000 /\ h_b.v \in {1000, 1800}) => h_out.val.val = 5600

C6_Witness ==
    /\ h_op = "calculate_win_probability"
    /\ h_a = Num(8000)
    /\ h_b = Num(1800)
    /\ h_out = Some(Ret(5600))

\* the normal path ran with this match score and this margin from the model
ScoredWith(score, margin) ==
    /\ NormalPath
    /\ result.val.spec_match_score = Num(score)
    /\ "margin" \in DOMAIN result.val.financial_analysis
    /\ result.val.financial_analysis["margin"] = Num(margin)

NegativeScore ==
    /\ NormalPath
    /\ result.val.spec_match_score.k = "num"
    /\ result.val.spec_match_score.v < 0

\* C7 as stated: the win_probability of every returned result lies in
\* [0,100]; 200 with margin 50 gives exactly 100.0; a negative score gives 0.
C7_Original ==
    Returned =>
        /\ result.val.win_probability \in 0 .. 10000
        /\ ScoredWith(20000, 5000) => result.val.win_probability = 10000
        /\ NegativeScore => result.val.win_probability = 0

\* C7 (amended): the win_probability of every returned result, on every
\* path, lies in [0,100]; 200 with margin 50 gives exactly 100.0; a negative
\* score gives 0 unless the margin exceeds 18, where the +15 bonus applies
\* before the clamp (-10 with margin 20 gives 8.0).
C7_WinProbabilityInRange ==
    Returned =>
        /\ result.val.win_probability \in 0 .. 10000
        /\ ScoredWith(20000, 5000) => result.val.win_probability = 10000
        /\ (NegativeScore
              /\ ~Gt(Get(result.val.financial_analysis, "margin", Num(2000)), 1800))
             => result.val.win_probability = 0
        /\ ScoredWith(0 - 1000, 2000) => result.val.win_probability = 800

C7_Witness ==
    /\ ScoredWith(20000, 5000)
    /\ result.val.win_probability = 10000

\* the labels a recommendation starts with
Labels(rec) == { l \in {"SELECT", "CONSIDER", "REVIEW", "REJECT"} : startswith(rec, l) }

\* C8: the tiering is a total function evaluated in strict order: every
\* (winProbability, matchScore) in [0,100]x[0,100] gets exactly one of the
\* four labels: SELECT iff win >= 70 and match >= 75; else CONSIDER iff
\* win >= 50 and match >= 60; else REVIEW iff win >= 30; else REJECT; the
\* boundaries 70/75, 50/60 and 30 fall in the qualifying tier.
C8_TieringTotal ==
    (h_op = "recommendation" /\ h_out # Unset) =>
        LET w == h_a
            m == h_b.v
            sel == w >= 7000 /\ m >= 7500
            con == ~sel /\ w >= 5000 /\ m >= 6000
            rev == ~sel /\ ~con /\ w >= 3000
            ls == Labels(h_out.val[1])
        IN  /\ Cardinality(ls) = 1
            /\ "SELECT" \in ls <=> sel
            /\ "CONSIDER" \in ls <=> con
            /\ "REVIEW" \in ls <=> rev
            /\ "REJECT" \in ls <=> (~sel /\ ~con /\ ~rev)
            /\ (w = 7000 /\ m = 7500) => ls = {"SELECT"}
            /\ (w = 5000 /\ m = 6000) => ls = {"CONSIDER"}
            /\ (w = 3000) => ls = {"REVIEW"}

C8_Witness ==
    /\ h_op = "recommendation"
    /\ h_a = 7000
    /\ h_b = Num(7500)
    /\ h_out = Some(recommendation(7000, Num(7500)))
    /\ h_out.val[1] = "SELECT - High confidence recommendation"

\* C9: the suggestions list of every result returned by run_analysis is
\* non-empty, on every path and for every match score and win probability.
C9_SuggestionsNonEmpty ==
    pc = "done" =>
        /\ result # Unset /\ result # Raise
        /\ Len(result.val.suggestions) >= 1

\* a normal-path result in which neither suggestion condition triggers
C9_Witness ==
    /\ NormalPath
    /\ Ge(result.val.spec_match_score, 7000)
    /\ result.val.win_probability >= 6000
    /\ Len(result.val.suggestions) = 1

InSeq(x, s) == \E i \in 1 .. Len(s) : s[i] = x

\* C10: on the normal path the suggestions come in a fixed order: the
\* technical-specifications suggestion iff matchScore < 70, then the pricing
\* suggestion iff winProbability < 60, and the well-aligned suggestion iff
\* neither holds (matchScore >= 70 and winProbability >= 60), then alone.
C10_SuggestionOrder ==
    NormalPath =>
        LET s == result.val.suggestions
            low_match == Lt(result.val.spec_match_score, 7000)
            low_win == result.val.win_probability < 6000
        IN  /\ InSeq(SuggestSpecs, s) <=> low_match
            /\ InSeq(SuggestPricing, s) <=> low_win
            /\ InSeq(SuggestAligned, s) <=> (~low_match /\ ~low_win)
            /\ InSeq(SuggestAligned, s) <=>
                 (Ge(result.val.spec_match_score, 7000)
                    /\ result.val.win_probability >= 6000)
            /\ InSeq(SuggestAligned, s) => s = <<SuggestAligned>>
            /\ (low_match /\ low_win) => s = <<SuggestSpecs, SuggestPricing>>
            /\ (low_match /\ ~low_win) => s = <<SuggestSpecs>>
            /\ (~low_match /\ low_win) => s = <<SuggestPricing>>

C10_Witness ==
    /\ NormalPath
    /\ result.val.suggestions = <<SuggestSpecs, SuggestPricing>>
    /\ result.val.spec_match_score = Num(6000)

-----------------------------------------------------------------------------
(* Properties of the stages and of the fallback *)

\* the answers of the completion client that carry no parseable JSON: an
\* exception, prose, an empty text, prose around a JSON value
Unparseable(answer) ==
    \/ answer = Raise
    \/ /\ answer # Raise
       /\ answer.val \in {<<ProseTok>>, <<>>,
                          <<ProseTok, JsonTok(JsonDict(EmptyDict))>>}

ExtractionFailed ==
    /\ Len(calls) >= 1
    /\ calls[1].stage = "extraction"
    /\ Unparseable(calls[1].answer)

PricingFailed ==
    /\ Len(calls) >= 2
    /\ calls[2].stage = "pricing"
    /\ Unparseable(calls[2].answer)

AllSpecs(value) == [key \in {"product_type", "voltage_rating", "material",
                             "durability_rating", "compliance_standards"} |-> value]

\* the number of completion calls of a stage in this invocation
CallsOf(stage) == Cardinality({ i \in 1 .. Len(calls) : calls[i].stage = stage })

\* C11: if the completion client raises or returns text that is not
\* parseable JSON for the extraction prompt, analyze_specs returns the
\* degraded result (score 0, five fields "Error", no SKUs) without a retry,
\* and run_analysis returns a result with agent_status "completed" whose
\* specification fields are all "Error", or all "Analysis Failed" when the
\* fault was caught at the top level.
C11_ExtractionDegrades ==
    ExtractionFailed =>
        /\ CallsOf("extraction") = 1
        /\ tech_result =
             Some(JsonDict([spec_match_score |-> Num(0),
                            standardized_specs |-> AllSpecs("Error"),
                            matched_skus |-> <<>>]))
        /\ pc = "done" =>
             /\ result # Unset /\ result # Raise
             /\ result.val.agent_status = "completed"
             /\ result.val.extracted_specs \in {AllSpecs("Error"),
                                                AllSpecs("Analysis Failed")}

C11_Witness ==
    /\ pc = "done"
    /\ ExtractionFailed
    /\ calls[1].answer = Ret(<<ProseTok, JsonTok(JsonDict(EmptyDict))>>)
    /\ result # Raise
    /\ result.val.extracted_specs = AllSpecs("Error")

\* the returned result is the rejection of the qualification gate
Rejected ==
    /\ Returned
    /\ result.val.recommendation = "REJECT - Does not meet qualification criteria"

\* C12: an extraction response that parses as JSON but lacks a required key
\* (standardized_specs, one of its five attributes, matched_skus,
\* spec_match_score) gives the degraded result; so every extraction result
\* that is not degraded, and the extracted_specs of every non-rejected
\* result of run_analysis, has all five specification keys.
C12_ShapeValidated ==
    /\ (tech_result # Unset /\ tech_result.val.isdict) =>
         LET d == tech_result.val.d IN
         /\ {"standardized_specs", "matched_skus", "spec_match_score"} \subseteq DOMAIN d
         /\ DOMAIN d["standardized_specs"] = SpecKeys
    /\ (Returned /\ ~Rejected) => DOMAIN result.val.extracted_specs = SpecKeys

\* the match score the scoring step reads from the extraction result
ScoreRead == Get(tech_result.val.d, "spec_match_score", Num(0))

TopLevelFault ==
    /\ pc = "done"
    /\ ~Rejected
    /\ \/ tech_result = Unset
       \/ tech_result # Unset /\ ~tech_result.val.isdict
       \/ tech_result # Unset /\ tech_result.val.isdict /\ pricing_result = Unset
       \/ pricing_result # Unset /\ ~pricing_result.val.isdict
       \/ pricing_result # Unset /\ ~IsNumber(ScoreRead)
       \/ /\ pricing_result # Unset
          /\ pricing_result.val.isdict
          /\ ~IsNumber(Get(pricing_result.val.d, "margin", Num(2000)))

\* C14: when a fault escapes the extraction, pricing or scoring step,
\* run_analysis returns the one fixed fallback: score 50, win probability
\* 45, five fields "Analysis Failed", zeroed pricing with margin 20 and
\* currency USD, "REVIEW - Low confidence", a rationale stating the failure,
\* the two suggestions, agent_status "completed"; whatever the input and
\* whichever the fault.
C14_FixedFallback ==
    TopLevelFault =>
        result =
          Ret([spec_match_score |-> Num(5000),
               win_probability |-> 4500,
               extracted_specs |-> AllSpecs("Analysis Failed"),
               financial_analysis |->
                  [breakdown |-> [material_cost |-> Num(0), service_fees |-> Num(0),
                                  applied_fees_list |-> <<>>],
                   total_cost_internal |-> Num(0),
                   total_bid_value |-> Num(0),
                   margin |-> Num(2000),
                   currency |-> "USD"],
               recommendation |-> "REVIEW - Low confidence",
               recommendation_reason |->
                  "AI analysis failed, using fallback values. Manual review recommended.",
               suggestions |->
                  <<"Re-run AI analysis when service is available",
                    "Manually review RFP requirements against company capabilities">>,
               agent_status |-> "completed"])

C14_Witness ==
    /\ TopLevelFault
    /\ pricing_result # Unset
    /\ pricing_result.val.isdict
    /\ Get(pricing_result.val.d, "margin", Num(2000)) = StrVal
    /\ result # Raise
    /\ result.val.win_probability = 4500

\* a stage of the returned result fell back to its degraded output
StageDegraded ==
    /\ Returned
    /\ ExtractionFailed \/ PricingFailed

\* C15: every degraded result and every top-level fallback result carries a
\* REVIEW recommendation, a rationale that names the failure and the
\* suggestions to retry or review manually; a stage failure never yields a
\* REJECT or SELECT recommendation without the failure being named.
C15_DegradedIsReview ==
    (StageDegraded \/ (TopLevelFault /\ result # Raise)) =>
        /\ startswith(result.val.recommendation, "REVIEW")
        /\ result.val.recommendation_reason =
             "AI analysis failed, using fallback values. Manual review recommended."
        /\ result.val.suggestions =
             <<"Re-run AI analysis when service is available",
               "Manually review RFP requirements against company capabilities">>

AnalysisResultFields ==
    {"spec_match_score", "extracted_specs", "matched_skus", "financial_analysis",
     "win_probability", "recommendation", "recommendation_reason", "suggestions",
     "agent_status"}

\* C16: every result returned by run_analysis, on every path, is
\* structurally complete: match score, extracted specification, matched
\* identifiers, pricing result, win probability, recommendation label and
\* rationale, suggestions, and a status tag equal to "completed".
C16_StructurallyComplete ==
    Returned =>
        /\ AnalysisResultFields \subseteq DOMAIN result.val
        /\ result.val.agent_status = "completed"

\* the JSON value carried by a parseable answer
Payload(answer) ==
    LET text == answer.val
        i == CHOOSE j \in 1 .. Len(text) : text[j].t = "json"
    IN  text[i].val

\* what the extraction stage returns for the answer of the completion client
ExtractionReturned(answer) ==
    IF Unparseable(answer)
    THEN JsonDict([spec_match_score |-> Num(0),
                   standardized_specs |-> AllSpecs("Error"),
                   matched_skus |-> <<>>])
    ELSE Payload(answer)

\* the calls of one invocation are the extraction call, then at most one
\* pricing call, made after extraction returned and with what it returned
CallOrder ==
    /\ Len(calls) <= 2
    /\ Len(calls) >= 1 => calls[1].stage = "extraction"
    /\ Len(calls) = 2 =>
         /\ calls[2].stage = "pricing"
         /\ tech_result = Some(ExtractionReturned(calls[1].answer))
         /\ LET d == ExtractionReturned(calls[1].answer).d IN
            /\ calls[2].skus =
                 (IF "matched_skus" \in DOMAIN d THEN d["matched_skus"] ELSE <<>>)
            /\ calls[2].specs =
                 (IF "standardized_specs" \in DOMAIN d THEN d["standardized_specs"]
                  ELSE EmptyDict)

\* C18 as stated: in a run_analysis call that passes the gate the extraction
\* prompt is sent exactly once, the pricing prompt at most once and only
\* after extraction returned, with exactly the identifiers and specification
\* extraction returned; no retry, at most two calls.
C18_Original ==
    /\ CallOrder
    /\ pc \in {"price", "score"} => CallsOf("extraction") = 1
    /\ (pc = "done" /\ result # Raise /\ ~Rejected) => CallsOf("extraction") = 1

\* C18 (amended): in a run_analysis call that passes the gate the extraction
\* prompt is sent at most once, and exactly once when the technical agent
\* could be built (not at all when building the model or the agent failed);
\* the pricing prompt is sent at most once and only after extraction
\* returned, with exactly the identifiers and specification extraction
\* returned; no retry, at most two calls.
C18_StageOrder ==
    /\ CallOrder
    /\ pc \in {"price", "score"} => CallsOf("extraction") = 1
    /\ (pc = "done" /\ result # Raise /\ ~Rejected) =>
         CallsOf("extraction") = (IF _tech_agent # Unset THEN 1 ELSE 0)

C18_Witness ==
    /\ pc = "done"
    /\ Len(calls) = 2
    /\ calls[1].answer # Raise
    /\ calls[2].skus = <<"P001", "P002">>
    /\ calls[2].specs = AllSpecs("Not Specified")

\* C20: the spec_match_score of every result returned by run_analysis is a
\* number in [0,100], whatever score the extraction response contains.
C20_ScoreInRange ==
    Returned =>
        /\ result.val.spec_match_score.k = "num"
        /\ result.val.spec_match_score.v \in 0 .. 10000

\* the invocation that has finished repeats the observed one
Repeats ==
    /\ pc = "done"
    /\ probe # Unset
    /\ probe.val.data = rfp_data
    /\ probe.val.flag = check_constraints

\* C17: run_analysis is deterministic in its input and the completion
\* client's responses: two calls with identical RFP input and
\* check_constraints, against a client that answers the same prompt the same
\* way, return identical results, whatever other calls happened before or in
\* between on the same orchestrator.
C17_Deterministic == Repeats => result = probe.val.result

C17_Witness ==
    /\ Repeats
    /\ between
    /\ NormalPath
    /\ result = probe.val.result
    /\ result.val.win_probability \in {6396, 6397}

\* every handler that has its result holds the result of run_analysis run
\* alone on its RFP
ResultsAsAlone ==
    \A c \in DOMAIN handlers :
        handlers[c].out # Unset =>
            handlers[c].out.val \in run_alone(handlers[c].data, client, env)

\* a handle that is set is never assigned another value
HandlesInitialisedOnce ==
    /\ _model => _model'
    /\ _tech_agent # Unset => _tech_agent' = _tech_agent
    /\ _pricing_agent # Unset => _pricing_agent' = _pricing_agent

\* C19: run_analysis invocations of handlers in flight at the same time for
\* different RFPs do not interfere: in every order in which the event loop
\* resumes the handlers, each invocation returns the result it would return
\* when run alone, and the only state one invocation leaves to another is the
\* model and agent handles, which keep their value once they are set.
C19_NoInterference == []ResultsAsAlone /\ [][HandlesInitialisedOnce]_vars

C19_Witness ==
    /\ handlers # <<>>
    /\ handlers[1].at = "saving"
    /\ handlers[1].out.val.exc = FALSE
    /\ "matched_skus" \in DOMAIN handlers[1].out.val.val
    /\ running = 2
    /\ NormalPath
    /\ result # handlers[1].out.val
    /\ result \in run_alone(handlers[2].data, client, env)

\* C21: load_repository_file never fails when the named file is unavailable
\* (missing, unreadable or otherwise not openable): it returns the marked
\* placeholder, so building the agents never fails on missing reference data
\* and every invocation that passes the gate, with a model that can be
\* built, reaches the completion client.
C21_PlaceholderWhenUnavailable ==
    (pc = "done" /\ ~Rejected /\ env.model_ok) =>
        /\ _tech_agent # Unset
        /\ Len(calls) >= 1
        /\ calls[1].data.placeholder = (env.sku # "ok")

\* C27: a result whose pricing stage fell back to its degraded output
\* (margin 0, total_bid_value 0) never carries the SELECT recommendation,
\* for every match score the extraction response can contain.
C27_DegradedPricingNeverSelect ==
    (NormalPath /\ PricingFailed) =>
        ~startswith(result.val.recommendation, "SELECT")

\* w (hundredths) is the exact base x (thousandths) clamped to [0,100] and
\* rounded to 2 decimals
IsWinProbability(w, x) ==
    /\ x < 0 => w = 0
    /\ x > 100000 => w = 10000
    /\ x \in 0 .. 100000 => IsRounded(w, x)

\* the match score the extraction result carries, 0 when it has none
ScoreOrZero ==
    LET tech == tech_result.val.d IN
    IF "spec_match_score" \in DOMAIN tech THEN tech["spec_match_score"].v ELSE 0

\* C22: on the normal path the win probability is computed from the
\* extraction's match score, 0 when the extraction result has none, and the
\* pricing result's margin: with margin 20, hence +15, exactly when the
\* pricing result has no margin field, and with margin 0, hence -10, when
\* the pricing stage returned its degraded result.
C22_WinProbabilityInputs ==
    (NormalPath /\ ScoreRead.k = "num") =>
        LET pricing == pricing_result.val.d
            w == result.val.win_probability
        IN  /\ "margin" \notin DOMAIN pricing =>
                  IsWinProbability(w, 7 * ScoreOrZero + 15000)
            /\ PricingFailed =>
                  /\ pricing = [margin |-> Num(0), total_bid_value |-> Num(0)]
                  /\ IsWinProbability(w, 7 * ScoreOrZero - 10000)
            /\ ("margin" \in DOMAIN pricing /\ pricing["margin"].k = "num") =>
                  IsWinProbability(w, ExactBase(ScoreOrZero, pricing["margin"].v))

C22_Witness ==
    /\ NormalPath
    /\ result.val.spec_match_score = Num(8000)
    /\ "margin" \notin DOMAIN pricing_result.val.d
    /\ ~PricingFailed
    /\ result.val.win_probability = 7100

\* an invocation without the gate has not evaluated it and has not been
\* rejected; a result of the normal path has been through both stages
GateSkipped ==
    (pc = "done" /\ ~check_constraints) =>
        /\ ~gate_raised
        /\ ~Rejected
        /\ NormalPath \/ TopLevelFault
        /\ NormalPath => (CallsOf("extraction") = 1 /\ CallsOf("pricing") = 1)

\* without the gate the invocation goes from its first line to the stages
GateStepSkipped == (pc = "gate" /\ ~check_constraints) => pc' = "extract"

\* C23: with check_constraints false the gate is not evaluated: for every
\* budget, also a budget <= 0 or a missing one, run_analysis goes on to the
\* extraction and pricing stages and never returns the result "REJECT - Does
\* not meet qualification criteria".
C23_NoGateWithoutFlag == []GateSkipped /\ [][GateStepSkipped]_vars

C23_Witness ==
    /\ pc = "done"
    /\ ~check_constraints
    /\ "budget" \in DOMAIN rfp_data
    /\ Le(rfp_data["budget"], 0)
    /\ NormalPath
    /\ Len(calls) = 2

-----------------------------------------------------------------------------
(* The API server (src/main.py) and the scheduler (src/cron_scheduler.py).  *)
(* Every handler, background task and scheduled job is a coroutine on one   *)
(* event loop: it runs from one await to the next without interruption,     *)
(* and every await is a database operation, which takes effect at the       *)
(* server at some moment of its own or raises.  A step of a coroutine is    *)
(* the operation it awaits followed by the code up to its next await.       *)

\* an _id value: the string str(ObjectId()) that create_rfp stores (the
\* default of RFP.id), and the bson ObjectId built from such a string; a
\* filter matches an _id of the same type only
StrId(h) == [type |-> "str", hex |-> h]
ObjectId(s) == [type |-> "ObjectId", hex |-> s.hex]

\* the RFPs in the collection
AppRfps == {1, 2}

\* approximate_budget of an RFP: Optional[float]
AppBudgets == {Num(0), Num(5000000), NoneVal}

\* the document create_rfp inserts: RFP(**rfp.dict(), user_id).dict(by_alias)
create_rfp(h, budget) ==
    [_id |-> StrId(h), title |-> Some("Cable supply"),
     approximate_budget |-> budget, recommendation |-> "",
     agent_status |-> "idle", demo_status |-> "none"]

\* RFP(**rfp_doc): title is a required str
RFP(rfp_doc) == IF rfp_doc.title.set THEN Ret(rfp_doc) ELSE Raise

\* collection.find_one({"_id": _id})
find_one(collection, _id) ==
    IF _id \in DOMAIN collection THEN Some(collection[_id]) ELSE Unset

\* collection.update_one({"_id": _id}, {"$set": fields}): no document
\* matching is no error
update_one(collection, _id, fields) ==
    IF _id \in DOMAIN collection
    THEN [collection EXCEPT ![_id] = fields @@ @]
    ELSE collection

\* db.rfps.find({"agent_status": {"$in": ["idle", "pending"]}}): the batch
\* the cursor holds after its first fetch, in insertion order
find_pending(collection) ==
    LET all == [i \in 1 .. Cardinality(AppRfps) |-> i]
        hit(h) == /\ StrId(h) \in DOMAIN collection
                  /\ collection[StrId(h)].agent_status \in {"idle", "pending"}
        hexes == SelectSeq(all, hit)
    IN  [i \in 1 .. Len(hexes) |-> collection[StrId(hexes[i])]]

\* what orchestrator.run_analysis({"title", "description", "budget"}) can
\* yield for an RFP of the budget, over the environments and the clients
run_analysis_outcomes(budget) ==
    LET data == [title |-> "Cable supply", description |-> "11kV XLPE cable",
                 budget |-> budget]
        runs == { UNION { run_alone(data, cl, e) :
                            cl \in ConcClients(e, [c \in Callers |-> data]) } :
                    e \in Environments }
    IN  { IF r.exc THEN [exc |-> TRUE, recommendation |-> ""]
          ELSE [exc |-> FALSE, recommendation |-> r.val.recommendation] :
            r \in UNION runs }

run_analysis == [budget \in AppBudgets |-> run_analysis_outcomes(budget)]

\* update_data of the handlers: results.get("recommendation", "") and the
\* other fields of the result, with agent_status "completed"
update_data(results) ==
    [recommendation |-> results.recommendation, agent_status |-> "completed"]

\* fallback_data of analyze_rfp
fallback_data ==
    [recommendation |-> "REVIEW - Low confidence", agent_status |-> "completed"]

\* recommendation.startswith("SELECT") or recommendation.startswith("CONSIDER")
positive(text) ==
    startswith(text, "SELECT") \/ startswith(text, "CONSIDER")

NoResults == [exc |-> FALSE, recommendation |-> ""]

\* a coroutine: the operation it awaits (pc), the path parameter or the
\* current document's _id (rfp_id), the record it built (rfp), the rest of
\* the cursor's batch (pending), the value of run_analysis (results), the
\* BackgroundTasks it added (background), the status of its response
\* (response), whether its results update succeeded for the current RFP
\* (persisted), the RFPs it marked failed after that (failed_persisted),
\* and whether one of its database operations raised (raised)
NewTask(kind, pc0, h) ==
    [kind |-> kind, pc |-> pc0, rfp_id |-> StrId(h),
     rfp |-> create_rfp(0, NoneVal), pending |-> <<>>, results |-> NoResults,
     background |-> <<>>, response |-> "", persisted |-> FALSE,
     failed_persisted |-> {}, raised |-> FALSE]

\* the coroutine t goes on from its await with the operation's effect
Resume(t, me, collections) ==
    /\ db' = collections
    /\ tasks' = [tasks EXCEPT ![t] = me]

\* send_notification: db.notifications.insert_one
send_notification(collections, rfp_id, notification_type) ==
    [collections EXCEPT !.notifications =
        @ \cup {[rfp_id |-> rfp_id, type |-> notification_type]}]

\* POST /rfps/{rfp_id}/analyze
analyze_rfp(t) ==
    LET me == tasks[t]
        rfp_id == me.rfp_id
        at(p, ok) == [me EXCEPT !.pc = p, !.raised = @ \/ ~ok]
        end(r, ok) == [me EXCEPT !.pc = "end", !.response = r, !.raised = @ \/ ~ok]
    IN  /\ me.kind = "analyze_rfp"
        /\ me.pc # "end"
        /\ \E ok \in BOOLEAN :
             IF me.pc = "find_one" THEN
                 LET rfp_doc == find_one(db.rfps, rfp_id)
                 IN  IF ~ok THEN Resume(t, end("500", ok), db)
                     ELSE IF ~rfp_doc.set THEN Resume(t, end("404", ok), db)
                     ELSE IF RFP(rfp_doc.val).exc THEN Resume(t, end("500", ok), db)
                     ELSE Resume(t, [at("processing", ok) EXCEPT !.rfp = rfp_doc.val], db)
             ELSE IF me.pc = "processing" THEN
                 IF ~ok THEN Resume(t, at("fallback", ok), db)
                 ELSE \E results \in run_analysis[me.rfp.approximate_budget] :
                        Resume(t,
                               IF results.exc THEN at("fallback", ok)
                               ELSE [at("update", ok) EXCEPT !.results = results],
                               [db EXCEPT !.rfps = update_one(@, ObjectId(rfp_id),
                                                      [agent_status |-> "processing"])])
             ELSE IF me.pc = "update" THEN
                 IF ~ok THEN Resume(t, at("fallback", ok), db)
                 ELSE Resume(t,
                             IF positive(me.results.recommendation)
                             THEN at("demo_center", ok)
                             ELSE [at("reload", ok) EXCEPT !.background = <<"ai_result">>],
                             [db EXCEPT !.rfps = update_one(@, ObjectId(rfp_id),
                                                            update_data(me.results))])
             ELSE IF me.pc = "demo_center" THEN
                 IF ok /\ db.demo_center_active
                 THEN Resume(t, at("demo_insert", ok), db)
                 ELSE Resume(t, [at("reload", ok) EXCEPT !.background = <<"ai_result">>], db)
             ELSE IF me.pc = "demo_insert" THEN
                 IF ok
                 THEN Resume(t, at("demo_status", ok),
                             [db EXCEPT !.demo_requests[rfp_id.hex] = @ + 1])
                 ELSE Resume(t, [at("reload", ok) EXCEPT !.background = <<"ai_result">>], db)
             ELSE IF me.pc = "demo_status" THEN
                 IF ok
                 THEN Resume(t, [at("reload", ok) EXCEPT
                                    !.background = <<"demo_request", "ai_result">>],
                             [db EXCEPT !.rfps = update_one(@, ObjectId(rfp_id),
                                                            [demo_status |-> "requested"])])
                 ELSE Resume(t, [at("reload", ok) EXCEPT !.background = <<"ai_result">>], db)
             ELSE IF me.pc = "fallback" THEN
                 IF ~ok THEN Resume(t, end("500", ok), db)
                 ELSE Resume(t, at("reload", ok),
                             [db EXCEPT !.rfps = update_one(@, ObjectId(rfp_id),
                                                            fallback_data)])
             ELSE IF me.pc = "reload" THEN
                 LET updated_doc == find_one(db.rfps, ObjectId(rfp_id))
                 IN  IF ~ok THEN Resume(t, end("500", ok), db)
                     ELSE IF ~updated_doc.set THEN Resume(t, end("500", ok), db)
                     ELSE IF RFP(updated_doc.val).exc THEN Resume(t, end("500", ok), db)
                     ELSE IF me.background = <<>> THEN Resume(t, end("200", ok), db)
                     ELSE Resume(t, [at("background", ok) EXCEPT !.response = "200"], db)
             ELSE \* "background": the tasks added run after the response
                 LET rest == Tail(me.background)
                     next == [(IF rest = <<>> THEN end("200", ok) ELSE at("background", ok))
                                 EXCEPT !.background = rest]
                 IN  IF ok
                     THEN Resume(t, next,
                                 send_notification(db, rfp_id, Head(me.background)))
                     ELSE Resume(t, next, db)

\* the loop head of a sweep: the next document of the batch, or the end
next_document(me, builds_record) ==
    IF me.pending = <<>> THEN [me EXCEPT !.pc = "end", !.response = "done"]
    ELSE LET rfp_doc == Head(me.pending)
             go == [me EXCEPT !.pending = Tail(@), !.rfp_id = rfp_doc._id,
                              !.rfp = rfp_doc, !.results = NoResults,
                              !.persisted = FALSE]
         IN  IF builds_record /\ RFP(rfp_doc).exc
             THEN [go EXCEPT !.pc = "end", !.response = "raised"]
             ELSE [go EXCEPT !.pc = IF builds_record THEN "processing"
                                    ELSE "run_analysis"]

\* run_ai_on_pending_rfps(db): POST /ai/start and POST /cron-jobs/.../run
run_ai_on_pending_rfps(t) ==
    LET me == tasks[t]
        rfp_id == me.rfp_id
        at(p, ok) == [me EXCEPT !.pc = p, !.raised = @ \/ ~ok]
    IN  /\ me.kind = "run_ai_on_pending_rfps"
        /\ me.pc # "end"
        /\ \E ok \in BOOLEAN :
             IF me.pc = "find" THEN
                 IF ~ok
                 THEN Resume(t, [at("end", ok) EXCEPT !.response = "raised"], db)
                 ELSE Resume(t, next_document([me EXCEPT !.pending = find_pending(db.rfps)],
                                              TRUE), db)
             ELSE IF me.pc = "processing" THEN
                 IF ~ok THEN Resume(t, at("failed", ok), db)
                 ELSE \E results \in run_analysis[me.rfp.approximate_budget] :
                        Resume(t,
                               IF results.exc THEN at("failed", ok)
                               ELSE [at("update", ok) EXCEPT !.results = results],
                               [db EXCEPT !.rfps = update_one(@, rfp_id,
                                                      [agent_status |-> "processing"])])
             ELSE IF me.pc = "update" THEN
                 IF ~ok THEN Resume(t, at("failed", ok), db)
                 ELSE Resume(t, [at("notify", ok) EXCEPT !.persisted = TRUE],
                             [db EXCEPT !.rfps = update_one(@, rfp_id,
                                                            update_data(me.results))])
             ELSE IF me.pc = "notify" THEN
                 IF ~ok THEN Resume(t, at("failed", ok), db)
                 ELSE Resume(t, next_document(me, TRUE),
                             send_notification(db, rfp_id, "ai_result"))
             ELSE \* "failed": the except clause
                 IF ~ok
                 THEN Resume(t, [at("end", ok) EXCEPT !.response = "raised"], db)
                 ELSE Resume(t,
                             next_document(
                                 [me EXCEPT !.failed_persisted =
                                     IF me.persisted THEN @ \cup {rfp_id.hex} ELSE @],
                                 TRUE),
                             [db EXCEPT !.rfps = update_one(@, rfp_id,
                                                            [agent_status |-> "failed"])])

\* CronScheduler.run_ai_on_pending_rfps_job
run_ai_on_pending_rfps_job(t) ==
    LET me == tasks[t]
        rfp_id == me.rfp_id
        at(p, ok) == [me EXCEPT !.pc = p, !.raised = @ \/ ~ok]
    IN  /\ me.kind = "run_ai_on_pending_rfps_job"
        /\ me.pc # "end"
        /\ IF me.pc = "run_analysis" THEN
               \E results \in run_analysis[me.rfp.approximate_budget] :
                  Resume(t,
                         IF results.exc THEN [me EXCEPT !.pc = "failed"]
                         ELSE [me EXCEPT !.pc = "update", !.results = results],
                         db)
           ELSE \E ok \in BOOLEAN :
             IF me.pc = "find" THEN
                 IF ~ok
                 THEN Resume(t, [at("end", ok) EXCEPT !.response = "caught"], db)
                 ELSE Resume(t, next_document([me EXCEPT !.pending = find_pending(db.rfps)],
                                              FALSE), db)
             ELSE IF me.pc = "update" THEN
                 IF ~ok THEN Resume(t, at("failed", ok), db)
                 ELSE Resume(t, [at("notify", ok) EXCEPT !.persisted = TRUE],
                             [db EXCEPT !.rfps = update_one(@, rfp_id,
                                                            update_data(me.results))])
             ELSE IF me.pc = "notify" THEN
                 IF ~ok THEN Resume(t, at("failed", ok), db)
                 ELSE Resume(t, next_document(me, FALSE),
                             send_notification(db, rfp_id, "ai_result"))
             ELSE \* "failed": the inner except clause
                 IF ~ok
                 THEN Resume(t, [at("end", ok) EXCEPT !.response = "caught"], db)
                 ELSE Resume(t,
                             next_document(
                                 [me EXCEPT !.failed_persisted =
                                     IF me.persisted THEN @ \cup {rfp_id.hex} ELSE @],
                                 FALSE),
                             [db EXCEPT !.rfps = update_one(@, rfp_id,
                                                            [agent_status |-> "failed"])])

\* CronScheduler.check_and_run_jobs, which the interval trigger fires every
\* five minutes: an enabled job runs run_ai_on_pending_rfps_job again
check_and_run_jobs(t) ==
    /\ tasks[t].kind = "run_ai_on_pending_rfps_job"
    /\ tasks[t].pc = "end"
    /\ tasks' = [tasks EXCEPT ![t] = NewTask("run_ai_on_pending_rfps_job", "find", 0)]
    /\ UNCHANGED db

\* POST /rfps/{rfp_id}/request-demo
request_demo(t) ==
    LET me == tasks[t]
        rfp_id == me.rfp_id
        at(p, ok) == [me EXCEPT !.pc = p, !.raised = @ \/ ~ok]
        end(r, ok) == [me EXCEPT !.pc = "end", !.response = r, !.raised = @ \/ ~ok]
    IN  /\ me.kind = "request_demo"
        /\ me.pc # "end"
        /\ \E ok \in BOOLEAN :
             IF ~ok THEN Resume(t, end("500", ok), db)
             ELSE IF me.pc = "find_one" THEN
                 LET rfp_doc == find_one(db.rfps, ObjectId(rfp_id))
                 IN  IF ~rfp_doc.set THEN Resume(t, end("404", ok), db)
                     ELSE IF RFP(rfp_doc.val).exc THEN Resume(t, end("500", ok), db)
                     ELSE IF ~positive(rfp_doc.val.recommendation)
                     THEN Resume(t, end("400", ok), db)
                     ELSE Resume(t, [at("existing_demo", ok) EXCEPT !.rfp = rfp_doc.val], db)
             ELSE IF me.pc = "existing_demo" THEN
                 IF db.demo_requests[rfp_id.hex] > 0
                 THEN Resume(t, end("400", ok), db)
                 ELSE Resume(t, at("demo_insert", ok), db)
             ELSE IF me.pc = "demo_insert" THEN
                 Resume(t, at("demo_status", ok),
                        [db EXCEPT !.demo_requests[rfp_id.hex] = @ + 1])
             ELSE IF me.pc = "demo_status" THEN
                 Resume(t, at("notify", ok),
                        [db EXCEPT !.rfps = update_one(@, ObjectId(rfp_id),
                                                       [demo_status |-> "requested"])])
             ELSE \* "notify"
                 Resume(t, end("200", ok),
                        send_notification(db, rfp_id, "demo_request"))

\* PUT /rfps/{rfp_id} with {"title": null}: RFPUpdate.title is Optional and
\* dict(exclude_unset=True) keeps a field the client set to null
update_rfp(h) ==
    /\ StrId(h) \in DOMAIN db.rfps
    /\ db.rfps[StrId(h)].title.set
    /\ db' = [db EXCEPT !.rfps = update_one(@, StrId(h), [title |-> Unset])]
    /\ UNCHANGED tasks

\* the collections after create_rfp for each of the RFPs
AppDatabases(budgets, centers) ==
    { [rfps |-> [i \in { StrId(h) : h \in DOMAIN budget } |->
                   create_rfp(i.hex, budget[i.hex])],
       demo_requests |-> [h \in AppRfps |-> 0],
       notifications |-> {},
       demo_center_active |-> active] :
        budget \in budgets, active \in centers }

InitNoEngine ==
    /\ InitOrchestrator
    /\ InitNoPure
    /\ client = EmptyDict
    /\ env = EmptyDict
    /\ probe = Unset
    /\ between = FALSE
    /\ handlers = <<>>
    /\ running = 0

e_vars == <<run_vars, h_vars, client, env, probe, between, handlers, running>>

\* one RFP, analysed twice and with a demo requested by its client
InitDemo ==
    /\ InitNoEngine
    /\ db \in AppDatabases([{1} -> AppBudgets], BOOLEAN)
    /\ tasks = <<NewTask("analyze_rfp", "find_one", 1),
                 NewTask("analyze_rfp", "find_one", 1),
                 NewTask("request_demo", "find_one", 1)>>

DemoAnalyze == (\E t \in DOMAIN tasks : analyze_rfp(t)) /\ UNCHANGED e_vars

DemoRequestDemo == (\E t \in DOMAIN tasks : request_demo(t)) /\ UNCHANGED e_vars

DemoUpdateRfp == update_rfp(1) /\ UNCHANGED e_vars

NextDemo ==
    \/ DemoAnalyze
    \/ DemoRequestDemo
    \/ DemoUpdateRfp

SpecDemo == InitDemo /\ [][NextDemo]_vars

\* the triggers of an analysis
SweepTasks ==
    { NewTask("analyze_rfp", "find_one", 1),
      NewTask("run_ai_on_pending_rfps", "find", 0),
      NewTask("run_ai_on_pending_rfps_job", "find", 0) }

\* two RFPs, with the analyze endpoint, the admin-started sweep and the
\* scheduled job on the event loop
InitSweep ==
    /\ InitNoEngine
    /\ db \in AppDatabases({ (1 :> b) @@ (2 :> Num(0)) : b \in {Num(0), Num(5000000)} },
                            {TRUE})
    /\ tasks \in { <<x, y>> : x, y \in SweepTasks }

SweepAnalyze == (\E t \in DOMAIN tasks : analyze_rfp(t)) /\ UNCHANGED e_vars

SweepMain == (\E t \in DOMAIN tasks : run_ai_on_pending_rfps(t)) /\ UNCHANGED e_vars

SweepCron == (\E t \in DOMAIN tasks : run_ai_on_pending_rfps_job(t)) /\ UNCHANGED e_vars

SweepUpdateRfp == update_rfp(1) /\ UNCHANGED e_vars

SweepSchedule == (\E t \in DOMAIN tasks : check_and_run_jobs(t)) /\ UNCHANGED e_vars

NextSweep ==
    \/ SweepAnalyze
    \/ SweepMain
    \/ SweepCron
    \/ SweepUpdateRfp
    \/ SweepSchedule

SpecSweep == InitSweep /\ [][NextSweep]_vars

\* the event loop resumes every coroutine whose awaited operation is over,
\* and the interval trigger keeps firing
FairSpecSweep ==
    /\ SpecSweep
    /\ WF_vars(SweepAnalyze)
    /\ WF_vars(SweepMain)
    /\ WF_vars(SweepCron)
    /\ WF_vars(SweepSchedule)

-----------------------------------------------------------------------------
(* The claims about the API server and the scheduler *)

\* C24: every RFP whose agent_status is "processing" eventually leaves that
\* status, for "completed" or "failed"; none stays in "processing"
C24_ProcessingLeaves ==
    \A h \in AppRfps :
        (db.rfps[StrId(h)].agent_status = "processing")
            ~> (db.rfps[StrId(h)].agent_status \in {"completed", "failed"})

\* the analyze handler t is past its demo block: its results update and every
\* operation after it succeeded
PastDemoBlock(t) ==
    /\ tasks[t].kind = "analyze_rfp"
    /\ tasks[t].pc \in {"reload", "background", "end"}
    /\ tasks[t].results # NoResults
    /\ ~tasks[t].raised

\* the coroutine t has inserted a demo request
InsertedDemoRequest(t) ==
    \/ tasks[t].kind = "analyze_rfp" /\ tasks[t].pc = "demo_status"
    \/ /\ tasks[t].kind = "analyze_rfp"
       /\ tasks[t].pc \in {"reload", "background", "end"}
       /\ positive(tasks[t].results.recommendation)
       /\ db.demo_center_active
    \/ tasks[t].kind = "request_demo" /\ tasks[t].pc \in {"demo_status", "notify"}
    \/ tasks[t].kind = "request_demo" /\ tasks[t].response = "200"

\* C25: once analyze_rfp is past its demo block, the RFP has a demo request
\* and demo_status "requested" if the recommendation starts with SELECT or
\* CONSIDER and a demo center is active, and its agent_status is "completed";
\* a demo request exists only if a handler with such a recommendation, or
\* request_demo, inserted it
C25_AutoDemoRequest ==
    /\ \A t \in DOMAIN tasks :
          PastDemoBlock(t) =>
            LET rfp_doc == db.rfps[tasks[t].rfp_id]
            IN  /\ rfp_doc.agent_status = "completed"
                /\ (positive(tasks[t].results.recommendation) /\ db.demo_center_active)
                      => /\ db.demo_requests[tasks[t].rfp_id.hex] >= 1
                         /\ rfp_doc.demo_status = "requested"
    /\ \A h \in AppRfps :
          db.demo_requests[h] >= 1 =>
            \E t \in DOMAIN tasks :
                /\ tasks[t].rfp_id.hex = h
                /\ InsertedDemoRequest(t)
                /\ tasks[t].kind = "analyze_rfp"
                      => positive(tasks[t].results.recommendation)

\* C25 without the status writes: the demo request itself is created exactly
\* for a SELECT or CONSIDER recommendation with an active demo center
DemoRequestIffPositive ==
    /\ \A t \in DOMAIN tasks :
          (PastDemoBlock(t) /\ positive(tasks[t].results.recommendation)
                           /\ db.demo_center_active)
            => db.demo_requests[tasks[t].rfp_id.hex] >= 1
    /\ \A h \in AppRfps :
          db.demo_requests[h] >= 1 =>
            \E t \in DOMAIN tasks :
                /\ tasks[t].rfp_id.hex = h
                /\ InsertedDemoRequest(t)
                /\ tasks[t].kind = "analyze_rfp"
                      => positive(tasks[t].results.recommendation)

IsSweep(t) ==
    tasks[t].kind \in {"run_ai_on_pending_rfps", "run_ai_on_pending_rfps_job"}

\* C28: a pending sweep writes agent_status "failed" only for an RFP whose
\* results update did not succeed, also when the notification insert fails,
\* and it sends the ai_result notification only after the results update
\* succeeded
C28_FailedOnlyIfNotPersisted ==
    \A t \in DOMAIN tasks :
        IsSweep(t) =>
            /\ tasks[t].failed_persisted = {}
            /\ tasks[t].pc = "notify" => tasks[t].persisted

\* the trigger t is analysing the RFP h: it is past its status write, or for
\* the scheduled job past run_analysis, and before its result write
Analysing(t, h) ==
    /\ tasks[t].pc = "update"
    /\ tasks[t].rfp_id.hex = h

\* C29: no two triggers (analyze endpoint, admin-started sweep, scheduled
\* job) are analysing the same RFP at once, under every interleaving
C29_OneAnalysisAtOnce ==
    \A h \in AppRfps : \A t, u \in DOMAIN tasks :
        (Analysing(t, h) /\ Analysing(u, h)) => t = u

\* a pending sweep that ended has handled every document of its batch
SweepHandlesAll ==
    \A t \in DOMAIN tasks :
        (IsSweep(t) /\ tasks[t].pc = "end") => tasks[t].pending = <<>>

\* a pending sweep calls run_analysis only for an RFP whose agent_status is
\* "idle" or "pending" (the admin-started sweep has set it to "processing"
\* in the same step)
SweepAnalysesPendingOnly ==
    \A t \in DOMAIN tasks :
        (IsSweep(t) /\ tasks[t].pc \in {"processing", "run_analysis"}
                   /\ tasks'[t].pc = "update")
            => db.rfps[tasks[t].rfp_id].agent_status \in {"idle", "pending"}

\* C30: a failure while handling one RFP does not stop a pending sweep, which
\* still handles every other RFP of its batch, and a sweep never analyses an
\* RFP whose agent_status is "processing", "completed" or "failed"
C30_SweepGoesOn == []SweepHandlesAll /\ [][SweepAnalysesPendingOnly]_vars

====
